---- MODULE Spec2Model ----
(***************************************************************************)
(* Model of run-all-benchmarks.py: a sequential script that, for each of   *)
(* the 18 compiled-in benchmark configurations, force-stops and kills the  *)
(* benchmark app through adb, launches it with the configuration's         *)
(* parameters, waits fixed times, stops and kills it again, and finally    *)
(* reads the results file.                                                 *)
(*                                                                         *)
(* The program counter pc holds the source line of the statement that is   *)
(* executed next; 0 means the interpreter has exited.  A subprocess is     *)
(* modelled by its exit status only: the device-control tool is taken to   *)
(* be executable, so subprocess.run always returns a CompletedProcess or   *)
(* raises CalledProcessError.                                              *)
(***************************************************************************)
EXTENDS Integers, Sequences, FiniteSets, TLC

VARIABLES
    configs,        \* the module-level list "configs" (lines 9-33)
    total_configs,  \* line 40
    i,              \* index bound by enumerate(configs, 1), 0 before the loop
    config,         \* entry bound by the for statement of line 41
    cmd,            \* launch command built at lines 46-55
    it,             \* position of the iterator of range(5, 31, 5) (line 70)
    wait_sec,       \* loop variable of line 70
    rc,             \* returncode of the CompletedProcess last returned
    pc,             \* source line of the next statement, 0 after exit
    raised,         \* line whose uncaught CalledProcessError ended the run, else 0
    log,            \* history: commands issued, sleeps slept, lines printed
    be_failed       \* history: some check=False command has returned nonzero

vars == <<configs, total_configs, i, config, cmd, it, wait_sec, rc, pc,
          raised, log, be_failed>>

----------------------------------------------------------------------------
(* Data *)

Cfg(name, size, scenario, preparedCache, drawCache) ==
    [name |-> name, size |-> size, scenario |-> scenario,
     preparedCache |-> preparedCache, drawCache |-> drawCache]

(* variant: an entry copied from the one above it keeps that entry's name *)
CONFIGS_DuplicateName ==
    << Cfg("baseline_static_100", 100, "STATIC", "false", "false"),
       Cfg("preparedcache_static_100", 100, "STATIC", "true", "false"),
       Cfg("drawcache_static_100", 100, "STATIC", "false", "true"),
       Cfg("baseline_mutation_100", 100, "FULL_MUTATION", "false", "false"),
       Cfg("preparedcache_mutation_100", 100, "FULL_MUTATION", "true", "false"),
       Cfg("drawcache_mutation_100", 100, "FULL_MUTATION", "false", "true"),
       Cfg("baseline_static_500", 500, "STATIC", "false", "false"),
       Cfg("baseline_static_500", 500, "STATIC", "true", "false"),
       Cfg("drawcache_static_500", 500, "STATIC", "false", "true"),
       Cfg("baseline_mutation_500", 500, "FULL_MUTATION", "false", "false"),
       Cfg("preparedcache_mutation_500", 500, "FULL_MUTATION", "true", "false"),
       Cfg("drawcache_mutation_500", 500, "FULL_MUTATION", "false", "true"),
       Cfg("baseline_static_1000", 1000, "STATIC", "false", "false"),
       Cfg("preparedcache_static_1000", 1000, "STATIC", "true", "false"),
       Cfg("drawcache_static_1000", 1000, "STATIC", "false", "true"),
       Cfg("baseline_mutation_1000", 1000, "FULL_MUTATION", "false", "false"),
       Cfg("preparedcache_mutation_1000", 1000, "FULL_MUTATION", "true", "false"),
       Cfg("drawcache_mutation_1000", 1000, "FULL_MUTATION", "false", "true") >>

(* variant: an entry copied from the one above it keeps preparedCache on *)
CONFIGS_BothFlags ==
    << Cfg("baseline_static_100", 100, "STATIC", "false", "false"),
       Cfg("preparedcache_static_100", 100, "STATIC", "true", "false"),
       Cfg("drawcache_static_100", 100, "STATIC", "true", "true"),
       Cfg("baseline_mutation_100", 100, "FULL_MUTATION", "false", "false"),
       Cfg("preparedcache_mutation_100", 100, "FULL_MUTATION", "true", "false"),
       Cfg("drawcache_mutation_100", 100, "FULL_MUTATION", "false", "true"),
       Cfg("baseline_static_500", 500, "STATIC", "false", "false"),
       Cfg("preparedcache_static_500", 500, "STATIC", "true", "false"),
       Cfg("drawcache_static_500", 500, "STATIC", "false", "true"),
       Cfg("baseline_mutation_500", 500, "FULL_MUTATION", "false", "false"),
       Cfg("preparedcache_mutation_500", 500, "FULL_MUTATION", "true", "false"),
       Cfg("drawcache_mutation_500", 500, "FULL_MUTATION", "false", "true"),
       Cfg("baseline_static_1000", 1000, "STATIC", "false", "false"),
       Cfg("preparedcache_static_1000", 1000, "STATIC", "true", "false"),
       Cfg("drawcache_static_1000", 1000, "STATIC", "false", "true"),
       Cfg("baseline_mutation_1000", 1000, "FULL_MUTATION", "false", "false"),
       Cfg("preparedcache_mutation_1000", 1000, "FULL_MUTATION", "true", "false"),
       Cfg("drawcache_mutation_1000", 1000, "FULL_MUTATION", "false", "true") >>

(* variant: an entry copied from the first block keeps that block's size *)
CONFIGS_WrongSize ==
    << Cfg("baseline_static_100", 100, "STATIC", "false", "false"),
       Cfg("preparedcache_static_100", 100, "STATIC", "true", "false"),
       Cfg("drawcache_static_100", 100, "STATIC", "false", "true"),
       Cfg("baseline_mutation_100", 100, "FULL_MUTATION", "false", "false"),
       Cfg("preparedcache_mutation_100", 100, "FULL_MUTATION", "true", "false"),
       Cfg("drawcache_mutation_100", 100, "FULL_MUTATION", "false", "true"),
       Cfg("baseline_static_500", 500, "STATIC", "false", "false"),
       Cfg("preparedcache_static_500", 500, "STATIC", "true", "false"),
       Cfg("drawcache_static_500", 500, "STATIC", "false", "true"),
       Cfg("baseline_mutation_500", 500, "FULL_MUTATION", "false", "false"),
       Cfg("preparedcache_mutation_500", 500, "FULL_MUTATION", "true", "false"),
       Cfg("drawcache_mutation_500", 500, "FULL_MUTATION", "false", "true"),
       Cfg("baseline_static_1000", 100, "STATIC", "false", "false"),
       Cfg("preparedcache_static_1000", 1000, "STATIC", "true", "false"),
       Cfg("drawcache_static_1000", 1000, "STATIC", "false", "true"),
       Cfg("baseline_mutation_1000", 1000, "FULL_MUTATION", "false", "false"),
       Cfg("preparedcache_mutation_1000", 1000, "FULL_MUTATION", "true", "false"),
       Cfg("drawcache_mutation_1000", 1000, "FULL_MUTATION", "false", "true") >>

CONFIGS ==
    << Cfg("baseline_static_100", 100, "STATIC", "false", "false"),
       Cfg("preparedcache_static_100", 100, "STATIC", "true", "false"),
       Cfg("drawcache_static_100", 100, "STATIC", "false", "true"),
       Cfg("baseline_mutation_100", 100, "FULL_MUTATION", "false", "false"),
       Cfg("preparedcache_mutation_100", 100, "FULL_MUTATION", "true", "false"),
       Cfg("drawcache_mutation_100", 100, "FULL_MUTATION", "false", "true"),
       Cfg("baseline_static_500", 500, "STATIC", "false", "false"),
       Cfg("preparedcache_static_500", 500, "STATIC", "true", "false"),
       Cfg("drawcache_static_500", 500, "STATIC", "false", "true"),
       Cfg("baseline_mutation_500", 500, "FULL_MUTATION", "false", "false"),
       Cfg("preparedcache_mutation_500", 500, "FULL_MUTATION", "true", "false"),
       Cfg("drawcache_mutation_500", 500, "FULL_MUTATION", "false", "true"),
       Cfg("baseline_static_1000", 1000, "STATIC", "false", "false"),
       Cfg("preparedcache_static_1000", 1000, "STATIC", "true", "false"),
       Cfg("drawcache_static_1000", 1000, "STATIC", "false", "true"),
       Cfg("baseline_mutation_1000", 1000, "FULL_MUTATION", "false", "false"),
       Cfg("preparedcache_mutation_1000", 1000, "FULL_MUTATION", "true", "false"),
       Cfg("drawcache_mutation_1000", 1000, "FULL_MUTATION", "false", "true") >>

Unbound == Cfg("", 0, "", "", "")

PACKAGE == "io.fabianterhorst.isometric.benchmark"

RESULTS_PATH ==
    "/storage/emulated/0/Android/data/io.fabianterhorst.isometric.benchmark/files/benchmark_results.csv"

ForceStopCmd == <<"adb", "shell", "am", "force-stop", PACKAGE>>

KillCmd == <<"adb", "shell", "am", "kill", PACKAGE>>

CatCmd == <<"adb", "shell", "cat", RESULTS_PATH>>

Digits == <<"0", "1", "2", "3", "4", "5", "6", "7", "8", "9">>

(* str(n) for a non-negative int: its decimal digits *)
RECURSIVE Str(_)
Str(n) == IF n < 10 THEN Digits[n + 1]
          ELSE Str(n \div 10) \o Digits[(n % 10) + 1]

(* variant: the two cache flags are passed under each other's key *)
BuildCmd_FlagsSwapped(c) ==
    << "adb", "shell", "am", "start", "-n",
       "io.fabianterhorst.isometric.benchmark/.BenchmarkActivity",
       "--ei", "sceneSize", Str(c.size),
       "--es", "scenario", c.scenario,
       "--ez", "enablePreparedSceneCache", c.drawCache,
       "--ez", "enableDrawWithCache", c.preparedCache,
       "--es", "interaction", "NONE",
       "--ei", "runs", "1" >>

(* the list literal of lines 46-55 *)
BuildCmd(c) ==
    << "adb", "shell", "am", "start", "-n",
       "io.fabianterhorst.isometric.benchmark/.BenchmarkActivity",
       "--ei", "sceneSize", Str(c.size),
       "--es", "scenario", c.scenario,
       "--ez", "enablePreparedSceneCache", c.preparedCache,
       "--ez", "enableDrawWithCache", c.drawCache,
       "--es", "interaction", "NONE",
       "--ei", "runs", "1" >>

(* list(range(start, stop, step)) for step > 0 *)
RECURSIVE Range(_, _, _)
Range(start, stop, step) ==
    IF start >= stop THEN <<>>
    ELSE <<start>> \o Range(start + step, stop, step)

(* variant: the range counts from 0 *)
WaitRange_FromZero == Range(0, 30, 5)

(* variant: the stop value excludes 30 *)
WaitRange_Short == Range(5, 30, 5)

WaitRange == Range(5, 31, 5)

(* exit statuses a command can return: 0, or nonzero (1 stands for all) *)
ReturnCodes == {0, 1}

(* variant: check is never honoured *)
Raises_Never(check, returncode) == FALSE

(* variant: check is always on *)
Raises_Always(check, returncode) == returncode # 0

(* subprocess.run raises CalledProcessError iff check and returncode != 0 *)
Raises(check, returncode) == check /\ returncode # 0

(* variant: the last item is left out *)
HasNext_OffByOne(idx, list) == idx < Len(list) - 1

(* the for statement of line 41 has a further item *)
HasNext(idx, list) == idx < Len(list)

(* the statement executed after the statement at line l completes normally *)
NextStmt(l) ==
    CASE l = 35 -> 40
      [] l = 40 -> 41
      [] l = 42 -> 46
      [] l = 46 -> 58
      [] l = 58 -> 59
      [] l = 59 -> 62
      [] l = 62 -> 63
      [] l = 63 -> 66
      [] l = 66 -> 69
      [] l = 69 -> 70
      [] l = 71 -> 72
      [] l = 72 -> 70
      [] l = 75 -> 76
      [] l = 76 -> 79
      [] l = 79 -> 80
      [] l = 80 -> 83
      [] l = 83 -> 84
      [] l = 84 -> 86
      [] l = 86 -> 41
      [] l = 88 -> 92
      [] l = 92 -> 0

(* one entry of the history *)
Event(kind, line, cfg, n, m, args) ==
    [kind |-> kind, line |-> line, cfg |-> cfg, n |-> n, m |-> m, args |-> args]

----------------------------------------------------------------------------
(* Statements *)

Init ==
    /\ configs = CONFIGS
    /\ total_configs = 0
    /\ i = 0
    /\ config = Unbound
    /\ cmd = <<>>
    /\ it = 0
    /\ wait_sec = 0
    /\ rc = 0
    /\ pc = 35
    /\ raised = 0
    /\ log = <<>>
    /\ be_failed = FALSE

(* subprocess.run(args, check=check) at line l *)
SubprocessRun(l, kind, args, check) ==
    /\ pc = l
    /\ \E r \in ReturnCodes :
         /\ rc' = r
         /\ log' = Append(log, Event(kind, l, i, 0, 0, args))
         /\ be_failed' = (be_failed \/ (~check /\ r # 0))
         /\ IF Raises(check, r)
              THEN pc' = 0 /\ raised' = l
              ELSE pc' = NextStmt(l) /\ raised' = raised
    /\ UNCHANGED <<configs, total_configs, i, config, cmd, it, wait_sec>>

(* time.sleep(secs) at line l *)
TimeSleep(l, secs) ==
    /\ pc = l
    /\ log' = Append(log, Event("sleep", l, i, secs, 0, <<>>))
    /\ pc' = NextStmt(l)
    /\ UNCHANGED <<configs, total_configs, i, config, cmd, it, wait_sec, rc,
                   raised, be_failed>>

(* print(...) at line l *)
PrintLine(l, kind, cfg, n, m, args) ==
    /\ pc = l
    /\ log' = Append(log, Event(kind, l, cfg, n, m, args))
    /\ pc' = NextStmt(l)
    /\ UNCHANGED <<configs, total_configs, i, config, cmd, it, wait_sec, rc,
                   raised, be_failed>>

(* lines 35-38 *)
PrintBanner ==
    /\ PrintLine(35, "print", 0, 0, 0, <<"Running All 18 Benchmark Configurations">>)

(* line 40 *)
CountConfigs ==
    /\ pc = 40
    /\ total_configs' = Len(configs)
    /\ pc' = NextStmt(40)
    /\ UNCHANGED <<configs, i, config, cmd, it, wait_sec, rc, raised, log,
                   be_failed>>

(* variant: the index is not advanced, the first entry is taken again *)
ForConfigNext_NoAdvance ==
    /\ pc = 41
    /\ HasNext(i, configs)
    /\ i' = i
    /\ config' = configs[i + 1]
    /\ pc' = 42
    /\ UNCHANGED <<configs, total_configs, cmd, it, wait_sec, rc, raised, log,
                   be_failed>>

(* line 41, next item *)
ForConfigNext ==
    /\ pc = 41
    /\ HasNext(i, configs)
    /\ i' = i + 1
    /\ config' = configs[i + 1]
    /\ pc' = 42
    /\ UNCHANGED <<configs, total_configs, cmd, it, wait_sec, rc, raised, log,
                   be_failed>>

(* line 41, iterator exhausted *)
ForConfigExit ==
    /\ pc = 41
    /\ ~HasNext(i, configs)
    /\ pc' = 88
    /\ UNCHANGED <<configs, total_configs, i, config, cmd, it, wait_sec, rc,
                   raised, log, be_failed>>

(* variant: the index is printed as enumerate(configs) would count it, from 0 *)
PrintProgress_ZeroBased ==
    /\ PrintLine(42, "progress", i, i - 1, total_configs,
                 <<config.name, Str(config.size), config.scenario,
                   config.preparedCache, config.drawCache>>)

(* lines 42-43 *)
PrintProgress ==
    /\ PrintLine(42, "progress", i, i, total_configs,
                 <<config.name, Str(config.size), config.scenario,
                   config.preparedCache, config.drawCache>>)

(* variant: building the command also resets a flag of the entry, which  *)
(* config shares with the list                                          *)
AssignCmd_WritesBack ==
    /\ pc = 46
    /\ cmd' = BuildCmd(config)
    /\ config' = [config EXCEPT !.drawCache = "false"]
    /\ configs' = [configs EXCEPT ![i].drawCache = "false"]
    /\ pc' = NextStmt(46)
    /\ UNCHANGED <<total_configs, i, it, wait_sec, rc, raised, log, be_failed>>

(* lines 46-55 *)
AssignCmd ==
    /\ pc = 46
    /\ cmd' = BuildCmd(config)
    /\ pc' = NextStmt(46)
    /\ UNCHANGED <<configs, total_configs, i, config, it, wait_sec, rc, raised,
                   log, be_failed>>

(* line 58 *)
ForceStopStale ==
    /\ SubprocessRun(58, "stop", ForceStopCmd, FALSE)

(* line 59 *)
SleepAfterStopStale ==
    /\ TimeSleep(59, 3)

(* variant: the force-stop command is issued again in place of kill *)
KillStale_AsStop ==
    /\ SubprocessRun(62, "stop", ForceStopCmd, FALSE)

(* line 62 *)
KillStale ==
    /\ SubprocessRun(62, "kill", KillCmd, FALSE)

(* variant: the settle time of line 59 is repeated *)
SleepAfterKillStale_Long ==
    /\ TimeSleep(63, 3)

(* line 63 *)
SleepAfterKillStale ==
    /\ TimeSleep(63, 2)

(* variant: a failed launch goes on to the post-run cleanup of line 79 *)
Launch_ThenCleanup ==
    /\ pc = 66
    /\ \E r \in ReturnCodes :
         /\ rc' = r
         /\ log' = Append(log, Event("launch", 66, i, 0, 0, cmd))
         /\ IF Raises(TRUE, r)
              THEN pc' = 79 /\ raised' = 66
              ELSE pc' = NextStmt(66) /\ raised' = raised
    /\ UNCHANGED <<configs, total_configs, i, config, cmd, it, wait_sec, be_failed>>

(* line 66 *)
Launch ==
    /\ SubprocessRun(66, "launch", cmd, TRUE)

(* line 69 *)
PrintWaiting ==
    /\ PrintLine(69, "print", i, 0, 0, <<"  Waiting for completion...">>)

(* line 70, next item *)
ForWaitNext ==
    /\ pc = 70
    /\ HasNext(it, WaitRange)
    /\ it' = it + 1
    /\ wait_sec' = WaitRange[it + 1]
    /\ pc' = 71
    /\ UNCHANGED <<configs, total_configs, i, config, cmd, rc, raised, log,
                   be_failed>>

(* line 70, iterator exhausted; the next entry makes a fresh iterator *)
ForWaitExit ==
    /\ pc = 70
    /\ ~HasNext(it, WaitRange)
    /\ it' = 0
    /\ pc' = 75
    /\ UNCHANGED <<configs, total_configs, i, config, cmd, wait_sec, rc, raised,
                   log, be_failed>>

(* line 71 *)
SleepInWait ==
    /\ TimeSleep(71, 5)

(* line 72 *)
PrintElapsed ==
    /\ PrintLine(72, "elapsed", i, wait_sec, 0, <<>>)

(* line 75 *)
PrintSaving ==
    /\ PrintLine(75, "print", i, 0, 0, <<"  Waiting for results to be saved...">>)

(* line 76 *)
SleepForCsv ==
    /\ TimeSleep(76, 10)

(* line 79 *)
ForceStop ==
    /\ SubprocessRun(79, "stop", ForceStopCmd, FALSE)

(* line 80 *)
SleepAfterStop ==
    /\ TimeSleep(80, 2)

(* line 83 *)
Kill ==
    /\ SubprocessRun(83, "kill", KillCmd, FALSE)

(* line 84 *)
SleepAfterKill ==
    /\ TimeSleep(84, 1)

(* line 86 *)
PrintCompleted ==
    /\ PrintLine(86, "completed", i, 0, 0, <<"  [OK] Completed">>)

(* lines 88-91 *)
PrintAllComplete ==
    /\ PrintLine(88, "print", 0, 0, 0, <<"All Benchmarks Complete!", "Pulling results...">>)

(* line 92 *)
PullResults ==
    /\ pc = 92
    /\ \E r \in ReturnCodes :
         /\ rc' = r
         /\ log' = Append(log, Event("cat", 92, 0, 0, 0, CatCmd))
         /\ IF Raises(TRUE, r)
              THEN pc' = 0 /\ raised' = 92
              ELSE pc' = NextStmt(92) /\ raised' = raised
    /\ UNCHANGED <<configs, total_configs, i, config, cmd, it, wait_sec,
                   be_failed>>

Next ==
    \/ PrintBanner
    \/ CountConfigs
    \/ ForConfigNext
    \/ ForConfigExit
    \/ PrintProgress
    \/ AssignCmd
    \/ ForceStopStale
    \/ SleepAfterStopStale
    \/ KillStale
    \/ SleepAfterKillStale
    \/ Launch
    \/ PrintWaiting
    \/ ForWaitNext
    \/ ForWaitExit
    \/ SleepInWait
    \/ PrintElapsed
    \/ PrintSaving
    \/ SleepForCsv
    \/ ForceStop
    \/ SleepAfterStop
    \/ Kill
    \/ SleepAfterKill
    \/ PrintCompleted
    \/ PrintAllComplete
    \/ PullResults

Spec == Init /\ [][Next]_vars

(* the interpreter executes the next statement as long as there is one;   *)
(* every sleep and every subprocess returns                               *)
FairSpec == Spec /\ WF_vars(Next)

----------------------------------------------------------------------------
(* Observations on the history, used by the properties below *)

N == Len(configs)

CommandKinds == {"stop", "kill", "launch", "cat"}

(* the loop body of configuration k has run to its end *)
Finished(k) == k < i \/ (k = i /\ pc \in {86, 41, 88, 92, 0} /\ raised # 66)

Step(kind, n) == [kind |-> kind, n |-> n]

(* commands and pauses of configuration k in the order they happened; a   *)
(* pause inside the wait loop of line 70 is marked "wait"                 *)
Steps(k) ==
    LET es == SelectSeq(log, LAMBDA e : e.cfg = k /\ e.kind \in {"stop", "kill", "launch", "sleep"})
    IN  [j \in 1..Len(es) |->
            IF es[j].kind = "sleep"
              THEN Step(IF es[j].line = 71 THEN "wait" ELSE "pause", es[j].n)
              ELSE Step(es[j].kind, 0)]

(* consecutive wait-loop pauses added up into one "wait" step *)
RECURSIVE Merge(_)
Merge(s) ==
    IF Len(s) < 2 THEN s
    ELSE IF s[1].kind = "wait" /\ s[2].kind = "wait"
      THEN Merge(<<Step("wait", s[1].n + s[2].n)>> \o SubSeq(s, 3, Len(s)))
      ELSE <<s[1]>> \o Merge(Tail(s))

ExpectedSteps ==
    << Step("stop", 0), Step("pause", 3), Step("kill", 0), Step("pause", 2),
       Step("launch", 0), Step("wait", 30), Step("pause", 10),
       Step("stop", 0), Step("pause", 2), Step("kill", 0), Step("pause", 1) >>

(* s is a beginning of t, a last wait step possibly still in progress *)
Begins(s, t) ==
    /\ Len(s) <= Len(t)
    /\ \A j \in 1..Len(s) :
         \/ s[j] = t[j]
         \/ j = Len(s) /\ s[j].kind = "wait" /\ t[j].kind = "wait" /\ s[j].n <= t[j].n

----------------------------------------------------------------------------
(* C1: every configuration's commands and pauses happen in the order stop,
   pause 3, kill, pause 2, launch, wait loop of 30 in total, pause 10, stop,
   pause 2, kill, pause 1: at any moment what has happened for a
   configuration is a beginning of that sequence, and for a configuration
   whose loop body has finished (so its launch succeeded) it is exactly that
   sequence. *)
C1_FixedOrder ==
    \A k \in 1..N :
        /\ Begins(Merge(Steps(k)), ExpectedSteps)
        /\ Finished(k) => Merge(Steps(k)) = ExpectedSteps

C1_Witness == pc = 0 /\ raised = 0 /\ i = N /\ Finished(N) /\ Len(Steps(N)) = 16

(* C2: a launch that returns a nonzero status ends the run at once with the
   error raised at the launch, and once the run has ended that way no
   further step happens, so nothing of a later configuration is issued. *)
C2_LaunchFailureHalts ==
    [][ /\ (pc = 66 /\ rc' # 0) => (pc' = 0 /\ raised' = 66 /\ i' = i)
        /\ raised # 66
        /\ \A j \in 1..Len(log') : log'[j].cfg <= i ]_vars

C2_Witness ==
    /\ raised = 66 /\ pc = 0 /\ i = 2 /\ i < N
    /\ log[Len(log)].kind = "launch" /\ log[Len(log)].cfg = 2

(* C3: a stop or kill command that returns a nonzero status changes nothing
   but the discarded status: the run goes on to the following statement with
   no error raised, and a run in which such a failure happened and no launch
   failed still performs the full sequence for every configuration. *)
C3_BestEffortDiscarded ==
    /\ [][ (pc \in {58, 62, 79, 83} /\ rc' # 0) =>
             /\ pc' = pc + 1
             /\ raised' = 0
             /\ log' = Append(log, Event(IF pc \in {58, 79} THEN "stop" ELSE "kill",
                                         pc, i, 0, 0,
                                         IF pc \in {58, 79} THEN ForceStopCmd ELSE KillCmd))
             /\ UNCHANGED <<configs, total_configs, i, config, cmd, it, wait_sec>> ]_vars
    /\ [](be_failed /\ pc = 0 /\ raised # 66 =>
             \A k \in 1..N : Merge(Steps(k)) = ExpectedSteps)

C3_Witness == be_failed /\ pc = 0 /\ raised = 0 /\ rc = 0

(* the launch commands issued so far, in order *)
Launches == SelectSeq(log, LAMBDA e : e.kind = "launch")

(* positions of the retrieval command in the history *)
Retrievals == {j \in 1..Len(log) : log[j].kind = "cat"}

(* the argument following the flag named key, and the type option before it *)
KeyAt(args, key) == CHOOSE j \in 2..(Len(args) - 1) : args[j] = key

Param(args, key) == args[KeyAt(args, key) + 1]

TypeOf(args, key) == args[KeyAt(args, key) - 1]

HasOnce(args, key) == Cardinality({j \in 2..(Len(args) - 1) : args[j] = key}) = 1

(* the launch command a carries exactly the parameters of entry c *)
Carries(a, c) ==
    /\ Len(a) = 24
    /\ SubSeq(a, 1, 6) = <<"adb", "shell", "am", "start", "-n",
                           "io.fabianterhorst.isometric.benchmark/.BenchmarkActivity">>
    /\ \A key \in {"sceneSize", "scenario", "enablePreparedSceneCache",
                   "enableDrawWithCache", "interaction", "runs"} : HasOnce(a, key)
    /\ TypeOf(a, "sceneSize") = "--ei" /\ Param(a, "sceneSize") = ToString(c.size)
    /\ TypeOf(a, "scenario") = "--es" /\ Param(a, "scenario") = c.scenario
    /\ TypeOf(a, "enablePreparedSceneCache") = "--ez"
    /\ Param(a, "enablePreparedSceneCache") = c.preparedCache
    /\ TypeOf(a, "enableDrawWithCache") = "--ez"
    /\ Param(a, "enableDrawWithCache") = c.drawCache
    /\ TypeOf(a, "interaction") = "--es" /\ Param(a, "interaction") = "NONE"
    /\ TypeOf(a, "runs") = "--ei" /\ Param(a, "runs") = "1"

(* C4: the k-th launch issued carries the parameters of the k-th entry of
   the list (and the constants interaction NONE, runs 1); when the run ends
   without a failed launch there are exactly as many launches as entries,
   and exactly one retrieval, issued last. *)
C4_LaunchesMatchList ==
    /\ Len(Launches) <= N
    /\ \A k \in 1..Len(Launches) : Carries(Launches[k].args, configs[k])
    /\ (pc = 0 /\ raised # 66) =>
          /\ Len(Launches) = N
          /\ Cardinality(Retrievals) = 1
          /\ log[Len(log)].kind = "cat"

C4_Witness ==
    /\ pc = 0 /\ raised = 0 /\ Len(Launches) = 18
    /\ Param(Launches[8].args, "sceneSize") = "500"
    /\ Param(Launches[8].args, "enablePreparedSceneCache") = "true"
    /\ Param(Launches[8].args, "enableDrawWithCache") = "false"

(* C5: the retrieval command is issued at most once, as the last thing of
   the run, when every configuration of the list has performed its full
   sequence up to the final kill and pause, and never in a run in which a
   launch failed. *)
C5_RetrievalOnceAtEnd ==
    /\ Cardinality(Retrievals) <= 1
    /\ raised = 66 => Retrievals = {}
    /\ \A j \in Retrievals :
          /\ j = Len(log)
          /\ i = N
          /\ \A k \in 1..N : Merge(Steps(k)) = ExpectedSteps

C5_Witness == Retrievals # {} /\ pc = 0 /\ raised = 0 /\ rc = 0

(* C6: a launch or retrieval that returns a nonzero status ends the run at
   once with the error raised at that command, the command having been
   issued once; and after an error was raised no step happens any more
   (no retry, no further command). *)
C6_FatalTier ==
    [][ /\ (pc \in {66, 92} /\ rc' # 0) =>
             /\ pc' = 0
             /\ raised' = pc
             /\ Len(log') = Len(log) + 1
             /\ log'[Len(log')].kind = (IF pc = 66 THEN "launch" ELSE "cat")
        /\ raised = 0 ]_vars

C6_Witness == raised = 92 /\ pc = 0 /\ rc # 0 /\ log[Len(log)].kind = "cat"

(* lifecycle state of configuration k, read off the position of the program *)
LifeState(k) ==
    IF k > i THEN "IDLE"
    ELSE IF k < i THEN "DONE"
    ELSE CASE pc \in {42, 46} -> "IDLE"
           [] pc \in {58, 59} -> "STOPPING_STALE"
           [] pc \in {62, 63} -> "KILLING_STALE"
           [] pc = 66 -> "LAUNCHING"
           [] pc \in {69, 70, 71, 72, 75, 76} -> "OBSERVING"
           [] pc \in {79, 80} -> "STOPPING"
           [] pc \in {83, 84} -> "KILLING"
           [] pc \in {86, 41, 88, 92} -> "DONE"
           [] pc = 0 -> IF raised = 66 THEN "ABORTED" ELSE "DONE"

LifeCycle ==
    { <<"IDLE", "STOPPING_STALE">>, <<"STOPPING_STALE", "KILLING_STALE">>,
      <<"KILLING_STALE", "LAUNCHING">>, <<"LAUNCHING", "OBSERVING">>,
      <<"OBSERVING", "STOPPING">>, <<"STOPPING", "KILLING">>,
      <<"KILLING", "DONE">>, <<"LAUNCHING", "ABORTED">> }

(* C7: each configuration moves only along IDLE, STOPPING_STALE,
   KILLING_STALE, LAUNCHING, OBSERVING, STOPPING, KILLING, DONE, or from
   LAUNCHING to ABORTED; at most one configuration is outside IDLE and DONE;
   a configuration has left IDLE only if all earlier ones are DONE. *)
C7_Lifecycle ==
    /\ [][ \A k \in 1..N :
             \/ LifeState(k)' = LifeState(k)
             \/ <<LifeState(k), LifeState(k)'>> \in LifeCycle ]_vars
    /\ [](Cardinality({k \in 1..N : LifeState(k) \notin {"IDLE", "DONE"}}) <= 1)
    /\ [](\A k \in 1..N : LifeState(k) # "IDLE" =>
                             \A j \in 1..(k - 1) : LifeState(j) = "DONE")

C7_Witness ==
    /\ LifeState(3) = "ABORTED" /\ LifeState(2) = "DONE" /\ LifeState(4) = "IDLE"

RECURSIVE SumN(_)
SumN(s) == IF s = <<>> THEN 0 ELSE s[1].n + SumN(Tail(s))

(* total of the pauses slept for configuration k *)
PauseTotal(k) == SumN(Steps(k))

(* C8: for every configuration whose loop body has finished, whatever its
   parameters and whatever the stop and kill commands returned, the pauses
   slept for it add up to 3+2+30+10+2+1 = 48. *)
C8_PauseTotal ==
    \A k \in 1..N : Finished(k) => PauseTotal(k) = 3 + 2 + 30 + 10 + 2 + 1 /\ PauseTotal(k) = 48

C8_Witness == be_failed /\ i = N /\ pc = 41 /\ Finished(N) /\ PauseTotal(N) = 48

(* the commands issued so far, in order *)
Cmds == SelectSeq(log, LAMBDA e : e.kind \in CommandKinds)

(* a stop and later a kill lie strictly between positions lo and hi *)
StopThenKill(c, lo, hi) ==
    \E a \in (lo + 1)..(hi - 1) : \E b \in (a + 1)..(hi - 1) :
        c[a].kind = "stop" /\ c[b].kind = "kill"

(* C9: every launch is preceded, since the previous launch or the start, by
   a stop and then a kill; and whenever a launch or the retrieval is issued
   after a launch, a stop and then a kill lie between the two. *)
C9_CleanBeforeAndAfter ==
    LET c == Cmds
        Ls == {j \in 1..Len(c) : c[j].kind = "launch"}
        Bs == {j \in 1..Len(c) : c[j].kind \in {"launch", "cat"}}
        Prev(j) == IF \E q \in Ls : q < j
                     THEN CHOOSE q \in Ls : q < j /\ \A r \in Ls : r < j => r <= q
                     ELSE 0
    IN  /\ \A j \in Ls : StopThenKill(c, Prev(j), j)
        /\ \A j \in Bs : Prev(j) # 0 => StopThenKill(c, Prev(j), j)

C9_Witness ==
    /\ pc = 0 /\ raised = 0 /\ be_failed
    /\ Len(Cmds) = 5 * N + 1 /\ Cmds[5 * N + 1].kind = "cat"

(* C10: the list has 18 entries and no two of them have the same name. *)
C10_NamesDistinct ==
    /\ Len(configs) = 18
    /\ \A a, b \in 1..Len(configs) : a # b => configs[a].name # configs[b].name

C10_Witness == pc = 86 /\ i = 18 /\ config.name = "drawcache_mutation_1000"

(* C11: in every entry of the list, and so in every launch command issued,
   each cache flag is "true" or "false" and the two are never both "true". *)
C11_NeverBothCaches ==
    /\ \A k \in 1..Len(configs) :
          /\ configs[k].preparedCache \in {"true", "false"}
          /\ configs[k].drawCache \in {"true", "false"}
          /\ ~(configs[k].preparedCache = "true" /\ configs[k].drawCache = "true")
    /\ \A k \in 1..Len(Launches) :
          ~(/\ Param(Launches[k].args, "enablePreparedSceneCache") = "true"
            /\ Param(Launches[k].args, "enableDrawWithCache") = "true")

C11_Witness ==
    /\ Len(Launches) = 3 /\ pc = 69
    /\ Param(Launches[2].args, "enablePreparedSceneCache") = "true"
    /\ Param(Launches[3].args, "enableDrawWithCache") = "true"

Sizes == {100, 500, 1000}

Scenarios == {"STATIC", "FULL_MUTATION"}

(* baseline, preparedCache, drawCache as (preparedCache, drawCache) *)
CacheModes == {<<"false", "false">>, <<"true", "false">>, <<"false", "true">>}

(* C12: the list has 18 entries and each combination of a size in
   {100, 500, 1000}, a scenario in {STATIC, FULL_MUTATION} and a cache mode
   occurs in exactly one entry; a run that ends without a failed launch has
   issued exactly one launch for each combination. *)
C12_CrossProduct ==
    /\ Len(configs) = 18
    /\ \A sz \in Sizes : \A sc \in Scenarios : \A cm \in CacheModes :
          /\ Cardinality({k \in 1..Len(configs) :
                 /\ configs[k].size = sz /\ configs[k].scenario = sc
                 /\ configs[k].preparedCache = cm[1]
                 /\ configs[k].drawCache = cm[2]}) = 1
          /\ (pc = 0 /\ raised # 66) =>
                Cardinality({k \in 1..Len(Launches) :
                    /\ Param(Launches[k].args, "sceneSize") = ToString(sz)
                    /\ Param(Launches[k].args, "scenario") = sc
                    /\ Param(Launches[k].args, "enablePreparedSceneCache") = cm[1]
                    /\ Param(Launches[k].args, "enableDrawWithCache") = cm[2]}) = 1

C12_Witness ==
    /\ pc = 0 /\ raised = 0 /\ be_failed /\ Len(Launches) = 18
    /\ Param(Launches[17].args, "sceneSize") = "1000"
    /\ Param(Launches[17].args, "scenario") = "FULL_MUTATION"
    /\ Param(Launches[17].args, "enablePreparedSceneCache") = "true"

(* the pauses and elapsed-time reports of the wait loop of configuration k *)
WaitEvents(k) ==
    SelectSeq(log, LAMBDA e : e.cfg = k /\ (e.kind = "elapsed" \/ (e.kind = "sleep" /\ e.line = 71)))

(* the wait loop of configuration k has been left *)
PastWait(k) ==
    k < i \/ (k = i /\ pc \in {75, 76, 79, 80, 83, 84, 86, 41, 88, 92, 0} /\ raised # 66)

(* C13: the wait loop alternates a pause of 5 and a report; the k-th report
   shows 5k, which is the time paused in the loop so far; once the loop has
   been left there were exactly 6 iterations, 30 in total. *)
C13_WaitLoop ==
    \A k \in 1..N :
        LET w == WaitEvents(k) IN
        /\ Len(w) <= 12
        /\ \A j \in 1..Len(w) :
              IF j % 2 = 1
                THEN w[j].kind = "sleep" /\ w[j].n = 5
                ELSE /\ w[j].kind = "elapsed"
                     /\ w[j].n = 5 * (j \div 2)
                     /\ w[j].n = SumN(SelectSeq(SubSeq(w, 1, j), LAMBDA e : e.kind = "sleep"))
        /\ PastWait(k) =>
              /\ Len(w) = 12
              /\ w[12].n = 30
              /\ SumN(SelectSeq(w, LAMBDA e : e.kind = "sleep")) = 30

C13_Witness ==
    /\ i = 2 /\ pc = 75 /\ wait_sec = 30 /\ PastWait(2)
    /\ Len(WaitEvents(2)) = 12 /\ WaitEvents(2)[6].n = 15

(* the progress reports, commands of the loop and completion reports, in order *)
Reports ==
    SelectSeq(log, LAMBDA e : e.kind \in {"progress", "stop", "kill", "launch", "completed"})

ReportPattern == <<"progress", "stop", "kill", "launch", "stop", "kill", "completed">>

Completions == {j \in 1..Len(log) : log[j].kind = "completed"}

(* C14: each configuration's progress report comes before all of its
   commands and shows its 1-based position in the list, the list length as
   total, and its name and parameters; a completion report comes only
   directly after the final kill and the pause of 1, and none is emitted for
   a configuration whose launch failed. *)
C14_ProgressAndCompletion ==
    /\ \A j \in 1..Len(Reports) :
          LET k == ((j - 1) \div 7) + 1
              r == ((j - 1) % 7) + 1
              e == Reports[j]
          IN  /\ k <= Len(configs)
              /\ e.kind = ReportPattern[r]
              /\ r = 1 =>
                    /\ e.n = k
                    /\ e.m = Len(configs)
                    /\ e.args = <<configs[k].name, ToString(configs[k].size),
                                  configs[k].scenario, configs[k].preparedCache,
                                  configs[k].drawCache>>
              /\ r = 4 => Carries(e.args, configs[k])
    /\ \A j \in Completions :
          /\ j > 2
          /\ log[j - 1].kind = "sleep" /\ log[j - 1].n = 1
          /\ log[j - 2].kind = "kill"
    /\ Cardinality(Completions) <= Len(Launches)
    /\ raised = 66 =>
          /\ Cardinality(Completions) = Len(Launches) - 1
          /\ log[Len(log)].kind = "launch"

C14_Witness ==
    /\ pc = 0 /\ raised = 66 /\ i = 5
    /\ Cardinality(Completions) = 4 /\ Len(Reports) = 32 /\ Reports[29].n = 5

(* C15: a launch that returns a nonzero status is the last thing the run
   does: the run ends there, the failing configuration has had only stop,
   pause 3, kill, pause 2 and the launch (no wait loop, no pause, no post-run
   stop or kill), and no step follows. *)
C15_FailedLaunchIsLast ==
    /\ [][ /\ (pc = 66 /\ rc' # 0) => (pc' = 0 /\ raised' = 66)
           /\ raised # 66 ]_vars
    /\ [](raised = 66 =>
             /\ pc = 0
             /\ log[Len(log)].kind = "launch"
             /\ Cmds[Len(Cmds)].kind = "launch"
             /\ Len(Cmds) = 5 * (Len(Launches) - 1) + 3
             /\ Steps(i) = SubSeq(ExpectedSteps, 1, 5)
             /\ WaitEvents(i) = <<>>)

C15_Witness ==
    /\ raised = 66 /\ pc = 0 /\ rc # 0 /\ i = 1
    /\ Len(Cmds) = 3 /\ Len(log) = 7

StopKills == {j \in 1..Len(log) : log[j].kind \in {"stop", "kill"}}

(* the run ended with every configuration done and the retrieval attempted *)
RunCompleted ==
    /\ raised \in {0, 92}
    /\ i = N
    /\ \A k \in 1..N : Finished(k) /\ Merge(Steps(k)) = ExpectedSteps
    /\ Len(Launches) = N
    /\ Cardinality(Retrievals) = 1

(* the run ended at a failing launch, the first and only one that failed *)
RunAborted ==
    /\ raised = 66
    /\ rc # 0
    /\ log[Len(log)].kind = "launch"
    /\ Len(Launches) = i
    /\ \A k \in 1..(i - 1) : Finished(k)
    /\ Retrievals = {}

(* C16: whatever the commands return, the run eventually ends, and it ends
   either completed or aborted at the first failing launch, never both; at
   all times at most n launches, 4n stop/kill commands and 1 retrieval have
   been issued. *)
C16_Terminates ==
    /\ <>(pc = 0)
    /\ [](pc = 0 => (RunCompleted \/ RunAborted) /\ ~(RunCompleted /\ RunAborted))
    /\ [](/\ Len(Launches) <= N
          /\ Cardinality(StopKills) <= 4 * N
          /\ Cardinality(Retrievals) <= 1)

C16_Witness ==
    /\ pc = 0 /\ RunCompleted /\ raised = 92
    /\ Cardinality(StopKills) = 4 * N /\ Len(Launches) = N

(* C17: no step changes the list, so the list and every field of every
   entry are at all times, the final retrieval included, what they were at
   the start; the entry bound by the loop is the list's entry at the index,
   and the k-th launch carries the parameters of the k-th entry as it was at
   the start, whatever earlier commands returned. *)
C17_ListUnchanged ==
    /\ [][configs' = configs]_vars
    /\ [](/\ configs = CONFIGS
          /\ i >= 1 => config = CONFIGS[i]
          /\ \A k \in 1..Len(Launches) :
                /\ Carries(Launches[k].args, CONFIGS[k])
                /\ Launches[k].args = BuildCmd(CONFIGS[k]))

C17_Witness ==
    /\ pc = 0 /\ raised = 0 /\ be_failed /\ Retrievals = {Len(log)}
    /\ configs = CONFIGS /\ Len(Launches) = 18 /\ config = CONFIGS[18]

====
